---- MODULE Spec2Model ----
(***************************************************************************)
(* Sensor selection page (src/app/page.tsx), its presentation components   *)
(* (src/components/sensors) and the data access layer                      *)
(* (src/unnamed/part_000: getLocations, getSensorsByLocation, sensorCache).*)
(*                                                                         *)
(* A JS Set keeps insertion order and Array.from(set) reads it back in     *)
(* that order, so selectedSensorIds is a duplicate-free sequence.          *)
(*                                                                         *)
(* React commits a render and then runs the passive effects whose          *)
(* dependencies changed; it flushes them before it handles the next        *)
(* update.  pendingEffects is TRUE between the commit and that flush, and  *)
(* every handler or promise continuation waits for it to be FALSE.         *)
(***************************************************************************)
EXTENDS Integers, Sequences, FiniteSets, TLC

VARIABLES
    locations,            \* page.tsx:26  useState<Location[]>([])   (ids only)
    selectedLocationId,   \* page.tsx:27
    isLoadingLocations,   \* page.tsx:28
    sensors,              \* page.tsx:30  (sequence of sensorIds)
    isLoadingSensors,     \* page.tsx:31
    selectedSensorIds,    \* page.tsx:35  (Set<string>, in insertion order)
    selectedSensorIdsRef, \* page.tsx:43
    selectedLocationIdRef,\* page.tsx:44
    sensorsRef,           \* page.tsx:45
    effectDep,            \* dependency value the fetchSensors effect last ran with
    pendingEffects,       \* a commit whose passive effects have not run yet
    fetches,              \* in-flight fetchSensors closures (page.tsx:101-118)
    locFetch,             \* the fetchLocations / getLocations call (page.tsx:72-87)
    sensorCache,          \* part_000:62
    last                  \* the last operation that ran, with its inputs and outputs

vars == <<locations, selectedLocationId, isLoadingLocations, sensors,
          isLoadingSensors, selectedSensorIds, selectedSensorIdsRef,
          selectedLocationIdRef, sensorsRef, effectDep, pendingEffects,
          fetches, locFetch, sensorCache, last>>

pageState == <<locations, selectedLocationId, isLoadingLocations, sensors,
               isLoadingSensors, selectedSensorIds>>

refs == <<selectedSensorIdsRef, selectedLocationIdRef, sensorsRef>>

----------------------------------------------------------------------------
(* Bounds and inputs *)

\* Number of fetchSensors calls that may be in flight at once.
MaxFetches == 2

NULL == "null"
Unmounted == "unmounted"
NoFetch == [pc |-> "free"]

\* part_000:56.  The repository registers one file ("SanDiego"); the model
\* registers two so that a location switch exists.
LOCATION_FILES == <<"L1", "L2">>

LocationIds == {LOCATION_FILES[i] : i \in 1..Len(LOCATION_FILES)}

\* The sensorIds of @/data/<id>.json, in file order (part_000:78-79, 117-118).
Catalogue(id) ==
    CASE id = "L1" -> <<"A", "B", "C">>
      [] id = "L2" -> <<"X">>
      [] OTHER -> <<>>

\* Locations whose dynamic import may reject (part_000:89, 124): any of them.
Flaky == {"L1", "L2"}

ImportOutcomes(id) == IF id \in Flaky THEN {TRUE, FALSE} ELSE {TRUE}

\* A sensorId that is in no catalogue.
UnknownSensor == "Z"

Slots == 1..MaxFetches

----------------------------------------------------------------------------
(* Pure helpers *)

Ids(seq) == {seq[i] : i \in 1..Len(seq)}

RECURSIVE Without(_, _)
\* Set.prototype.delete on an insertion-ordered set.
Without(seq, x) ==
    IF seq = <<>> THEN <<>>
    ELSE IF Head(seq) = x THEN Without(Tail(seq), x)
    ELSE <<Head(seq)>> \o Without(Tail(seq), x)

RECURSIVE SetFrom(_)
\* new Set(iterable): first occurrences, in iteration order.
SetFrom(seq) ==
    IF seq = <<>> THEN <<>>
    ELSE <<Head(seq)>> \o SetFrom(Without(Tail(seq), Head(seq)))

\* The event record kept in last.
Ev(op, loc, sid, how, data, flag, n) ==
    [op |-> op, loc |-> loc, sid |-> sid, how |-> how, data |-> data,
     flag |-> flag, n |-> n]

NoEv == Ev("none", NULL, NULL, "-", <<>>, FALSE, 0)

----------------------------------------------------------------------------
(* Data access layer: src/unnamed/part_000 *)

\* Mutant: the cache is never consulted.
CacheHasNever(cache, id) == FALSE

\* sensorCache.has(locationId), part_000:111
CacheHas(cache, id) == id \in DOMAIN cache

\* sensorCache.set(id, sensors), part_000:88 and 121
CacheSet(cache, id, list) ==
    [k \in DOMAIN cache \cup {id} |-> IF k = id THEN list ELSE cache[k]]

\* Mutant: the failed load is cached as an empty list.
CacheEmptyAfterFailure(cache, id) == CacheSet(cache, id, <<>>)

\* The catch branch of getSensorsByLocation, part_000:124-127: the cache is
\* not written.
CacheAfterFailure(cache, id) == cache

\* Mutant: a failing file discards the entries listed so far.
LocationsAbortedByFailure(acc, fileId, ok) ==
    IF ok THEN Append(acc, fileId) ELSE <<>>

\* The loop body of getLocations, part_000:76-92: push on success, nothing
\* on failure.
LocationsAfterFile(acc, fileId, ok) ==
    IF ok THEN Append(acc, fileId) ELSE acc

\* The value getSensorsByLocation returns when the import rejects, part_000:126
FailureResult == <<>>

----------------------------------------------------------------------------
(* Page handlers: src/app/page.tsx *)

\* Mutant: the updater only ever adds.
ToggleAddsOnly(prev, sensorId) ==
    IF sensorId \in Ids(prev) THEN prev ELSE Append(prev, sensorId)

\* The updater of handleToggleSensor, page.tsx:136-144
ToggleUpdater(prev, sensorId) ==
    IF sensorId \in Ids(prev) THEN Without(prev, sensorId)
    ELSE Append(prev, sensorId)

\* Mutant: the first sensor is left out.
SelectAllButFirst(currentSensors) ==
    IF currentSensors = <<>> THEN <<>> ELSE SetFrom(Tail(currentSensors))

\* new Set(currentSensors.map((s) => s.sensorId)), page.tsx:150
SelectAllValue(currentSensors) == SetFrom(currentSensors)

\* new Set(), page.tsx:154
DeselectAllValue == <<>>

\* What handleConfirm logs, page.tsx:158-167: Array.from(set) is the set in
\* insertion order.
ConfirmIds(currentSelectedIds) == currentSelectedIds

\* Mutant: the isMounted guard is dropped.
ShouldApplyAlways(f) == TRUE

\* if (isMounted) of the try block of fetchSensors, page.tsx:107
ShouldApply(f) == f.isMounted

\* Mutant: the selection survives the load.
SelectionKept(prev) == prev

\* Mutant: the finally block never clears the loading flag.
ClearLoadingNever(f) == FALSE

\* Mutant: the finally block clears the loading flag for any closure.
ClearLoadingAlways(f) == TRUE

\* if (isMounted) of the finally block of fetchSensors, page.tsx:114
ShouldClearLoading(f) == f.isMounted

\* setSelectedSensorIds(new Set()) after a load, page.tsx:109
SelectionAfterLoad(prev) == <<>>

\* The cleanup of the fetchSensors effect, page.tsx:122-124: the closure that
\* is live has its isMounted set to false.
Cleanup(f) ==
    [s \in Slots |-> IF f[s].pc = "free" THEN f[s]
                     ELSE [f[s] EXCEPT !.isMounted = FALSE]]

FreeSlots(f) == {s \in Slots : f[s].pc = "free"}

FirstFree(f) == CHOOSE s \in FreeSlots(f) : \A t \in FreeSlots(f) : s <= t

\* fetchSensors() called by the effect, page.tsx:101-120
StartFetch(f, loc) ==
    [f EXCEPT ![FirstFree(f)] = [pc |-> "delay", loc |-> loc, isMounted |-> TRUE]]

----------------------------------------------------------------------------
(* Presentation: src/components/sensors *)

\* SensorList.tsx:72
AllSelected(selectedCount, totalCount) ==
    totalCount > 0 /\ selectedCount = totalCount

\* SensorList.tsx:73
SomeSelected(selectedCount, totalCount) ==
    selectedCount > 0 /\ selectedCount < totalCount

\* ActionBar.tsx:37
IsAllSelected(selectedCount, totalCount) ==
    selectedCount = totalCount /\ totalCount > 0

\* The data-state and the label of the header, SensorList.tsx:87 and 95-99.
HeaderState(selectedCount, totalCount) ==
    IF AllSelected(selectedCount, totalCount) THEN "all"
    ELSE IF SomeSelected(selectedCount, totalCount) THEN "some"
    ELSE "none"

\* ActionBar.tsx:36
HasSelection(selectedCount) == selectedCount > 0

\* page.tsx:205 with SensorList.tsx:155-161: the header and the rows are
\* rendered.
SensorListShown ==
    /\ selectedLocationId # NULL
    /\ ~isLoadingSensors
    /\ Len(sensors) # 0

\* page.tsx:205 with SensorList.tsx:159-161: "No sensors found" is rendered.
EmptyStateShown ==
    /\ selectedLocationId # NULL
    /\ ~isLoadingSensors
    /\ Len(sensors) = 0

\* page.tsx:248 with ActionBar.tsx:87: the confirm button is rendered and
\* enabled (page.tsx passes no isLoading to ActionBar).
ConfirmEnabled ==
    /\ selectedLocationId # NULL
    /\ HasSelection(Len(selectedSensorIds))

\* LocationSelect.tsx:52 and 66-67: the select is enabled and offers id.
LocationOffered(id) ==
    /\ ~isLoadingLocations
    /\ id \in Ids(locations)

----------------------------------------------------------------------------
(* Initial state: the first render, before its effects have run *)

Init ==
    /\ locations = <<>>
    /\ selectedLocationId = NULL
    /\ isLoadingLocations = TRUE
    /\ sensors = <<>>
    /\ isLoadingSensors = FALSE
    /\ selectedSensorIds = <<>>
    /\ selectedSensorIdsRef = <<>>
    /\ selectedLocationIdRef = NULL
    /\ sensorsRef = <<>>
    /\ effectDep = Unmounted
    /\ pendingEffects = TRUE
    /\ fetches = [s \in Slots |-> NoFetch]
    /\ locFetch = [pc |-> "unstarted", i |-> 0, acc |-> <<>>]
    /\ sensorCache = <<>>
    /\ last = NoEv

----------------------------------------------------------------------------
(* Effects: page.tsx:47-57, 69-92, 94-125 *)

RunEffects ==
    /\ pendingEffects
    /\ pendingEffects' = FALSE
    /\ selectedLocationIdRef' = selectedLocationId
    /\ locFetch' = IF effectDep = Unmounted
                   THEN [pc |-> "delay", i |-> 0, acc |-> <<>>]
                   ELSE locFetch
    /\ effectDep' = selectedLocationId
    /\ IF effectDep = selectedLocationId
       THEN /\ UNCHANGED <<sensors, selectedSensorIds, isLoadingSensors, fetches>>
       ELSE IF selectedLocationId = NULL
       THEN /\ sensors' = <<>>
            /\ selectedSensorIds' = <<>>
            /\ fetches' = Cleanup(fetches)
            /\ UNCHANGED isLoadingSensors
       ELSE /\ isLoadingSensors' = TRUE
            /\ fetches' = StartFetch(Cleanup(fetches), selectedLocationId)
            /\ UNCHANGED <<sensors, selectedSensorIds>>
    /\ selectedSensorIdsRef' = selectedSensorIds'
    /\ sensorsRef' = sensors'
    /\ UNCHANGED <<locations, selectedLocationId, isLoadingLocations,
                   sensorCache, last>>

----------------------------------------------------------------------------
(* Handlers *)

\* page.tsx:131-133.  Setting the value the state already has re-renders
\* nothing and runs no effect.
handleLocationChange(locationId) ==
    /\ ~pendingEffects
    /\ locationId # selectedLocationId => FreeSlots(fetches) # {}
    /\ selectedLocationId' = locationId
    /\ pendingEffects' = (locationId # selectedLocationId)
    /\ last' = Ev("pick", locationId, NULL, "-", <<>>,
                  locationId = selectedLocationId, 0)
    /\ UNCHANGED <<locations, isLoadingLocations, sensors, isLoadingSensors,
                   selectedSensorIds, refs, effectDep, fetches, locFetch,
                   sensorCache>>

\* page.tsx:135-145
handleToggleSensor(sensorId) ==
    /\ ~pendingEffects
    /\ selectedSensorIds' = ToggleUpdater(selectedSensorIds, sensorId)
    /\ pendingEffects' = TRUE
    /\ last' = Ev("toggle", selectedLocationId, sensorId, "-", <<>>, FALSE,
                  Len(selectedSensorIds))
    /\ UNCHANGED <<locations, selectedLocationId, isLoadingLocations, sensors,
                   isLoadingSensors, refs, effectDep, fetches, locFetch,
                   sensorCache>>

\* page.tsx:147-151
handleSelectAll ==
    /\ ~pendingEffects
    /\ selectedSensorIds' = SelectAllValue(sensorsRef)
    /\ pendingEffects' = TRUE
    /\ last' = Ev("selectAll", selectedLocationId, NULL, "-", <<>>, FALSE,
                  Len(selectedSensorIds))
    /\ UNCHANGED <<locations, selectedLocationId, isLoadingLocations, sensors,
                   isLoadingSensors, refs, effectDep, fetches, locFetch,
                   sensorCache>>

\* page.tsx:153-155
handleDeselectAll ==
    /\ ~pendingEffects
    /\ selectedSensorIds' = DeselectAllValue
    /\ pendingEffects' = TRUE
    /\ last' = Ev("deselectAll", selectedLocationId, NULL, "-", <<>>, FALSE,
                  Len(selectedSensorIds))
    /\ UNCHANGED <<locations, selectedLocationId, isLoadingLocations, sensors,
                   isLoadingSensors, refs, effectDep, fetches, locFetch,
                   sensorCache>>

\* Mutant: the selection is reset once it has been confirmed.
handleConfirmResetting ==
    /\ ~pendingEffects
    /\ last' = Ev("confirm", selectedLocationIdRef, NULL, "-",
                  ConfirmIds(selectedSensorIdsRef), FALSE,
                  Len(ConfirmIds(selectedSensorIdsRef)))
    /\ selectedSensorIds' = <<>>
    /\ pendingEffects' = TRUE
    /\ UNCHANGED <<locations, selectedLocationId, isLoadingLocations, sensors,
                   isLoadingSensors, refs, effectDep, fetches, locFetch,
                   sensorCache>>

\* page.tsx:157-173.  last records the logged payload: Location, Sensor IDs
\* and Count.
handleConfirm ==
    /\ ~pendingEffects
    /\ last' = Ev("confirm", selectedLocationIdRef, NULL, "-",
                  ConfirmIds(selectedSensorIdsRef), FALSE,
                  Len(ConfirmIds(selectedSensorIdsRef)))
    /\ UNCHANGED <<pageState, refs, effectDep, pendingEffects, fetches,
                   locFetch, sensorCache>>

----------------------------------------------------------------------------
(* getSensorsByLocation awaited by fetchSensors *)

\* The continuation of fetchSensors after the await, page.tsx:106-117.
FetchSensorsResolve(s, data, how) ==
    /\ fetches' = [fetches EXCEPT ![s] = NoFetch]
    /\ IF ShouldApply(fetches[s])
       THEN /\ sensors' = data
            /\ selectedSensorIds' = SelectionAfterLoad(selectedSensorIds)
            /\ pendingEffects' = TRUE
       ELSE UNCHANGED <<sensors, selectedSensorIds, pendingEffects>>
    /\ isLoadingSensors' = IF ShouldClearLoading(fetches[s]) THEN FALSE
                           ELSE isLoadingSensors
    /\ last' = Ev("fetchSensors", fetches[s].loc, NULL, how, data,
                  ShouldApply(fetches[s]), Len(selectedSensorIds))
    /\ UNCHANGED <<locations, selectedLocationId, isLoadingLocations, refs,
                   effectDep, locFetch>>

\* part_000:108-113: the delay ends and the cache is consulted.
GetSensorsAfterDelay(s) ==
    /\ ~pendingEffects
    /\ fetches[s].pc = "delay"
    /\ IF CacheHas(sensorCache, fetches[s].loc)
       THEN /\ FetchSensorsResolve(s, sensorCache[fetches[s].loc], "cache")
            /\ UNCHANGED sensorCache
       ELSE /\ fetches' = [fetches EXCEPT ![s].pc = "import"]
            /\ last' = Ev("import", fetches[s].loc, NULL, "-", <<>>, FALSE, 0)
            /\ UNCHANGED <<pageState, refs, effectDep, pendingEffects,
                           locFetch, sensorCache>>

\* part_000:115-127: the dynamic import settles.
GetSensorsImportDone(s, ok) ==
    /\ ~pendingEffects
    /\ fetches[s].pc = "import"
    /\ ok \in ImportOutcomes(fetches[s].loc)
    /\ IF ok
       THEN /\ sensorCache' = CacheSet(sensorCache, fetches[s].loc,
                                       Catalogue(fetches[s].loc))
            /\ FetchSensorsResolve(s, Catalogue(fetches[s].loc), "import")
       ELSE /\ sensorCache' = CacheAfterFailure(sensorCache, fetches[s].loc)
            /\ FetchSensorsResolve(s, FailureResult, "failed")

----------------------------------------------------------------------------
(* getLocations awaited by fetchLocations *)

\* page.tsx:74-83: the page is mounted, so the result is stored.
FetchLocationsResolve(data) ==
    /\ locations' = data
    /\ isLoadingLocations' = FALSE
    /\ locFetch' = [pc |-> "done", i |-> 0, acc |-> <<>>]

\* part_000:71-75
GetLocationsAfterDelay ==
    /\ ~pendingEffects
    /\ locFetch.pc = "delay"
    /\ IF Len(LOCATION_FILES) = 0
       THEN FetchLocationsResolve(<<>>)
       ELSE /\ locFetch' = [pc |-> "import", i |-> 1, acc |-> <<>>]
            /\ UNCHANGED <<locations, isLoadingLocations>>
    /\ last' = Ev("getLocations", NULL, NULL, "-", <<>>, FALSE, 0)
    /\ UNCHANGED <<selectedLocationId, sensors, isLoadingSensors,
                   selectedSensorIds, refs, effectDep, pendingEffects,
                   fetches, sensorCache>>

\* One pass of the loop body, part_000:75-93, and the return at line 95.
GetLocationsImportDone(ok) ==
    /\ ~pendingEffects
    /\ locFetch.pc = "import"
    /\ ok \in ImportOutcomes(LOCATION_FILES[locFetch.i])
    /\ LET fileId == LOCATION_FILES[locFetch.i]
           acc == LocationsAfterFile(locFetch.acc, fileId, ok)
       IN /\ sensorCache' = IF ok
                            THEN CacheSet(sensorCache, fileId, Catalogue(fileId))
                            ELSE sensorCache
          /\ IF locFetch.i = Len(LOCATION_FILES)
             THEN FetchLocationsResolve(acc)
             ELSE /\ locFetch' = [pc |-> "import", i |-> locFetch.i + 1,
                                  acc |-> acc]
                  /\ UNCHANGED <<locations, isLoadingLocations>>
          /\ last' = Ev("locationFile", fileId, NULL,
                        IF ok THEN "import" ELSE "failed", acc, FALSE, 0)
    /\ UNCHANGED <<selectedLocationId, sensors, isLoadingSensors,
                   selectedSensorIds, refs, effectDep, pendingEffects, fetches>>

----------------------------------------------------------------------------
(* Events raised by the rendered components *)

\* LocationSelect.tsx:49-52: onValueChange with an offered id.
SelectLocation(id) ==
    /\ LocationOffered(id)
    /\ handleLocationChange(id)

\* SensorItem.tsx:59-61, rendered by SensorList.tsx:132-139.
ClickSensorItem(sensorId) ==
    /\ SensorListShown
    /\ sensorId \in Ids(sensors)
    /\ handleToggleSensor(sensorId)

\* SensorList.tsx:75-81: the header checkbox.
ClickHeaderCheckbox ==
    /\ SensorListShown
    /\ IF \/ AllSelected(Len(selectedSensorIds), Len(sensors))
          \/ SomeSelected(Len(selectedSensorIds), Len(sensors))
       THEN handleDeselectAll
       ELSE handleSelectAll

\* SensorList.tsx:101-108: the "Clear selection" button.
ClickClearSelection ==
    /\ SensorListShown
    /\ SomeSelected(Len(selectedSensorIds), Len(sensors))
    /\ handleDeselectAll

\* ActionBar.tsx:85-90
ClickConfirm ==
    /\ ConfirmEnabled
    /\ handleConfirm

----------------------------------------------------------------------------
(* Specifications *)

ToggleInputs == Ids(sensors) \cup {UnknownSensor}

\* The steps of the loads that every specification takes.
Loads ==
    \/ GetLocationsAfterDelay
    \/ \E ok \in BOOLEAN : GetLocationsImportDone(ok)
    \/ \E s \in Slots : GetSensorsAfterDelay(s)

\* The handlers called with any argument at any time.
Next ==
    \/ RunEffects
    \/ Loads
    \/ \E s \in Slots, ok \in BOOLEAN : GetSensorsImportDone(s, ok)
    \/ \E id \in LocationIds : handleLocationChange(id)
    \/ \E sid \in ToggleInputs : handleToggleSensor(sid)
    \/ handleSelectAll
    \/ handleDeselectAll
    \/ handleConfirm

Spec == Init /\ [][Next]_vars

\* The handlers called only by the rendered components.  The select offers
\* an id only after getLocations has cached its catalogue (part_000:88), so
\* no getSensorsByLocation started here reaches its import.
NextUI ==
    \/ RunEffects
    \/ Loads
    \/ \E id \in LocationIds : SelectLocation(id)
    \/ \E sid \in Ids(sensors) : ClickSensorItem(sid)
    \/ ClickHeaderCheckbox
    \/ ClickClearSelection
    \/ ClickConfirm

SpecUI == Init /\ [][NextUI]_vars

\* Scheduling.  React runs the passive effects of a commit before it handles
\* the next event (page.tsx:47-57, 94-125), so RunEffects is not postponed
\* forever.  The timer of delay() and the promise of the dynamic import
\* (part_000:108, 116) settle whatever the user does in the meantime, so each
\* step of each started getSensorsByLocation is taken even if the commits of
\* other events keep interrupting it.
Fairness ==
    /\ WF_vars(RunEffects)
    /\ \A s \in Slots :
        /\ SF_vars(GetSensorsAfterDelay(s))
        /\ SF_vars(\E ok \in BOOLEAN : GetSensorsImportDone(s, ok))

\* The handlers called with any argument at any time, every started load of
\* sensors resolving.
SpecFair == Init /\ [][Next]_vars /\ Fairness

TypeOK ==
    /\ selectedLocationId \in LocationIds \cup {NULL}
    /\ isLoadingSensors \in BOOLEAN
    /\ pendingEffects \in BOOLEAN
    /\ DOMAIN sensorCache \subseteq LocationIds

\* Every getSensorsByLocation started from the rendered select is a cache hit.
UIFetchesHitCache ==
    \A s \in Slots : fetches[s].pc # "free" =>
        /\ fetches[s].pc = "delay"
        /\ fetches[s].loc \in DOMAIN sensorCache

----------------------------------------------------------------------------
(* Vocabulary of the claims *)

\* A fetchSensors closure leaves slot s in this step.
Completes(s) == fetches[s].pc # "free" /\ fetches'[s].pc = "free"

StaleCompletion ==
    \E s \in Slots : Completes(s) /\ ~fetches[s].isMounted

LiveCompletion ==
    \E s \in Slots : Completes(s) /\ fetches[s].isMounted

NoFetchInFlight == \A s \in Slots : fetches[s].pc = "free"

\* Every list getSensorsByLocation(id) can return.
Returnable(id) ==
    {Catalogue(id)} \cup (IF id \in Flaky THEN {FailureResult} ELSE {})

\* The controller state Ready of the state machine: a location is selected
\* and its load has ended.
Ready ==
    /\ selectedLocationId # NULL
    /\ effectDep = selectedLocationId
    /\ ~isLoadingSensors

----------------------------------------------------------------------------
(* C1 *)

\* C1: every identifier in selectedSensorIds is a sensorId of the catalogue
\* of the selected location (and the selection is empty while no location is
\* selected).
C1_SelectionWithinActiveCatalogue ==
    Ids(selectedSensorIds) \subseteq
        (IF selectedLocationId = NULL THEN {}
         ELSE Ids(Catalogue(selectedLocationId)))

----------------------------------------------------------------------------
(* C2 *)

\* C2: the completion of a superseded load writes neither sensors nor
\* selectedSensorIds, and once every load has resolved sensors is a list
\* getSensorsByLocation returns for the selected location.
C2_StaleResponseGuard ==
    /\ [][StaleCompletion => UNCHANGED <<sensors, selectedSensorIds>>]_vars
    /\ []((NoFetchInFlight /\ ~pendingEffects /\ selectedLocationId # NULL)
            => sensors \in Returnable(selectedLocationId))

\* The load of a location picked earlier resolved last, after the load of
\* the selected location, and sensors is the selected location's catalogue.
C2_Witness ==
    /\ last.op = "fetchSensors"
    /\ ~last.flag
    /\ last.how # "failed"
    /\ selectedLocationId # NULL
    /\ last.loc # selectedLocationId
    /\ NoFetchInFlight
    /\ sensors = Catalogue(selectedLocationId)
    /\ sensors # last.data

----------------------------------------------------------------------------
(* C3 *)

\* C3: the step in which a load's result becomes the displayed catalogue
\* also empties the selection, whatever was selected before.
C3_SwitchClearsSelection ==
    [][(LiveCompletion \/ sensors' # sensors)
        => (selectedSensorIds' = <<>> /\ sensors' = last'.data)]_vars

\* The catalogue of L2 has just replaced another one while the selection
\* was not empty, and the selection is empty.
C3_Witness ==
    /\ last.op = "fetchSensors"
    /\ last.flag
    /\ last.loc = "L2"
    /\ last.n > 0
    /\ sensors = Catalogue("L2")
    /\ selectedSensorIds = <<>>

----------------------------------------------------------------------------
(* C4 *)

\* The dynamic imports of @/data/<id>.json that have been started and have
\* not settled, by getSensorsByLocation and by getLocations.
ImportsInFlight(id) ==
    Cardinality({s \in Slots : fetches[s].pc = "import" /\ fetches[s].loc = id})
    + (IF locFetch.pc = "import" /\ LOCATION_FILES[locFetch.i] = id
       THEN 1 ELSE 0)

\* C4: overlapping cold calls for one id share a single invocation of the
\* source: no id ever has two imports in flight.
C4_ColdCallsCoalesce ==
    \A id \in LocationIds : ImportsInFlight(id) <= 1

----------------------------------------------------------------------------
(* C5 *)

\* getSensorsByLocation in slot s passes its cache check in this step.
ChecksCache(s) == fetches[s].pc = "delay" /\ fetches'[s].pc # "delay"

\* C5: an entry of sensorCache is never removed or changed, and a call that
\* finds an entry returns that list without importing.
C5_WarmCacheServes ==
    /\ [][\A id \in DOMAIN sensorCache :
            id \in DOMAIN sensorCache' /\ sensorCache'[id] = sensorCache[id]]_vars
    /\ [][\A s \in Slots :
            (ChecksCache(s) /\ fetches[s].loc \in DOMAIN sensorCache)
            => /\ fetches'[s].pc = "free"
               /\ last'.op = "fetchSensors"
               /\ last'.how = "cache"
               /\ last'.data = sensorCache[fetches[s].loc]]_vars

\* A call for L1 has just been served from the cache while another call for
\* L1 is still waiting: it will be served from the cache too.
C5_Witness ==
    /\ last.op = "fetchSensors"
    /\ last.how = "cache"
    /\ last.loc = "L1"
    /\ last.data = Catalogue("L1")
    /\ \E s \in Slots : fetches[s].pc = "delay" /\ fetches[s].loc = "L1"

----------------------------------------------------------------------------
(* C6 *)

\* The import of getSensorsByLocation in slot s settles in this step.
ImportSettles(s) == fetches[s].pc = "import" /\ fetches'[s].pc = "free"

\* C6: a failed import writes nothing to sensorCache, no entry ever holds
\* anything but the location's catalogue, a call that finds no entry imports
\* again, and an import that succeeds returns and caches the catalogue.
C6_FailureLeavesCacheUnpopulated ==
    /\ [][\A s \in Slots :
            (ImportSettles(s) /\ last'.how = "failed")
            => (sensorCache' = sensorCache /\ last'.data = <<>>)]_vars
    /\ [](\A id \in DOMAIN sensorCache : sensorCache[id] = Catalogue(id))
    /\ [][\A s \in Slots :
            (ChecksCache(s) /\ fetches[s].loc \notin DOMAIN sensorCache)
            => fetches'[s].pc = "import"]_vars
    /\ [][\A s \in Slots :
            (ImportSettles(s) /\ last'.how = "import")
            => /\ last'.data = Catalogue(fetches[s].loc)
               /\ fetches[s].loc \in DOMAIN sensorCache'
               /\ sensorCache'[fetches[s].loc] = Catalogue(fetches[s].loc)]_vars

\* The import for L2 has just failed, the cache holds nothing for L2, and a
\* second call for L2 has started its own import.
C6_Witness ==
    /\ last.op = "fetchSensors"
    /\ last.how = "failed"
    /\ last.loc = "L2"
    /\ "L2" \notin DOMAIN sensorCache
    /\ \E s \in Slots : fetches[s].pc = "import" /\ fetches[s].loc = "L2"

----------------------------------------------------------------------------
(* C7 *)

\* A handler of the given kind runs in this step.
HandlerStep(op) == ~pendingEffects /\ last'.op = op

\* C7: in Ready, a toggle of an identifier that is not in the displayed
\* catalogue leaves the selection unchanged.
C7_UnknownSensorRejected ==
    [][(HandlerStep("toggle") /\ Ready /\ last'.sid \notin Ids(sensors))
        => selectedSensorIds' = selectedSensorIds]_vars

----------------------------------------------------------------------------
(* C8 *)

\* The members of set in the order of the catalogue.
CatalogueOrder(cat, set) == SelectSeq(cat, LAMBDA x : x \in set)

\* C8: the sensor ids of a confirm payload are the selected ids in the order
\* of the displayed catalogue.
C8_PayloadInCatalogueOrder ==
    last.op = "confirm"
        => last.data = CatalogueOrder(sensors, Ids(selectedSensorIds))

----------------------------------------------------------------------------
(* C9 *)

\* C9: outside Ready, a toggle of a catalogue identifier, a select-all and a
\* deselect-all leave the selection unchanged (stated for selections that
\* hold catalogue identifiers only).
C9_MutationsOnlyWhenReady ==
    [][(/\ ~Ready
        /\ Ids(selectedSensorIds) \subseteq Ids(sensors)
        /\ \/ HandlerStep("toggle") /\ last'.sid \in Ids(sensors)
           \/ HandlerStep("selectAll")
           \/ HandlerStep("deselectAll"))
        => selectedSensorIds' = selectedSensorIds]_vars

----------------------------------------------------------------------------
(* C10 *)

\* C10: a payload is produced only in Ready with a non-empty selection.
\* (handleConfirm changes no state, so the state in which last is a confirm
\* is the state the confirm ran in.)
C10_ConfirmOnlyWhenReadyNonEmpty ==
    last.op = "confirm" => (Ready /\ Len(selectedSensorIds) > 0)

----------------------------------------------------------------------------
(* C11 *)

\* C11: handleConfirm changes no state of the page, no ref and no load, so
\* Ready and the selection are the same after it, and a confirm that follows
\* a confirm logs the same payload.
C11_ConfirmNonDestructive ==
    [][HandlerStep("confirm")
        => /\ UNCHANGED <<pageState, refs, effectDep, pendingEffects, fetches,
                          locFetch, sensorCache>>
           /\ Ready' = Ready
           /\ last.op = "confirm"
                => (last'.loc = last.loc /\ last'.data = last.data
                    /\ last'.n = last.n)]_vars

\* A confirm has run in Ready with two sensors selected, and they are still
\* selected.
C11_Witness ==
    /\ last.op = "confirm"
    /\ Ready
    /\ Len(selectedSensorIds) = 2
    /\ last.data = selectedSensorIds
    /\ last.loc = selectedLocationId

----------------------------------------------------------------------------
(* C12 *)

\* C12: select-all makes the selection the identifier set of the displayed
\* catalogue, so that count equals total, and deselect-all makes it empty,
\* whatever the catalogue and the selection were.
C12_BulkOperations ==
    /\ [][HandlerStep("selectAll")
            => /\ Ids(selectedSensorIds') = Ids(sensors)
               /\ Len(selectedSensorIds') = Len(sensors)]_vars
    /\ [][HandlerStep("deselectAll")
            => /\ selectedSensorIds' = <<>>
               /\ Len(selectedSensorIds') = 0]_vars

\* Select-all has run on the catalogue of L1 while one identifier was
\* selected, and the three identifiers of the catalogue are selected.
C12_Witness ==
    /\ last.op = "selectAll"
    /\ last.n = 1
    /\ sensors = Catalogue("L1")
    /\ Ids(selectedSensorIds) = {"A", "B", "C"}
    /\ Len(selectedSensorIds) = 3

----------------------------------------------------------------------------
(* C13 *)

\* C13, step by step: a toggle flips the membership of its identifier and
\* of no other, and the selection holds no identifier twice.  From the empty
\* selection this makes the selection the set of the identifiers toggled an
\* odd number of times, and count its size.
C13_ToggleParity ==
    /\ [][HandlerStep("toggle")
            => /\ (last'.sid \in Ids(selectedSensorIds'))
                    = (last'.sid \notin Ids(selectedSensorIds))
               /\ Ids(selectedSensorIds') \ {last'.sid}
                    = Ids(selectedSensorIds) \ {last'.sid}]_vars
    /\ [](Len(selectedSensorIds) = Cardinality(Ids(selectedSensorIds)))

\* In Ready, a toggle of a selected catalogue identifier has just removed it
\* and left another identifier selected.
C13_Witness ==
    /\ last.op = "toggle"
    /\ Ready
    /\ last.sid \in Ids(sensors)
    /\ last.sid \notin Ids(selectedSensorIds)
    /\ last.n = 2
    /\ Len(selectedSensorIds) = 1
    /\ Ids(selectedSensorIds) \subseteq Ids(sensors)

----------------------------------------------------------------------------
(* C14 *)

\* C14: the header is 'all' exactly when count = total > 0 and 'some'
\* exactly when 0 < count < total, never both; a rendered header is 'none'
\* only when count is 0; the ActionBar's flag agrees with the header's.
C14_HeaderAffordance ==
    LET count == Len(selectedSensorIds)
        total == Len(sensors)
    IN /\ (HeaderState(count, total) = "all") = (count = total /\ total > 0)
       /\ (HeaderState(count, total) = "some") = (0 < count /\ count < total)
       /\ ~(AllSelected(count, total) /\ SomeSelected(count, total))
       /\ (SensorListShown /\ HeaderState(count, total) = "none") => count = 0
       /\ IsAllSelected(count, total) = AllSelected(count, total)

----------------------------------------------------------------------------
(* C15 *)

\* A fetchSensors closure of the selected location that has not been
\* cleaned up is in flight.
LiveFetchInFlight ==
    \E s \in Slots :
        /\ fetches[s].pc # "free"
        /\ fetches[s].isMounted
        /\ fetches[s].loc = selectedLocationId

\* C15: once handleLocationChange has been called with the id that was
\* already selected, a load of that location is about to start or is in
\* flight.
C15_RepickRestartsLoad ==
    (last.op = "pick" /\ last.flag) => (pendingEffects \/ LiveFetchInFlight)

----------------------------------------------------------------------------
(* C16 *)

\* The load of the selected location has just failed.
LoadJustFailed ==
    /\ last.op = "fetchSensors"
    /\ last.how = "failed"
    /\ last.flag

\* C16: after a failed load the catalogue and the selection are empty and
\* the page does not render what it renders for a loaded empty catalogue.
C16_FailureDistinguishable ==
    LoadJustFailed
        => /\ sensors = <<>>
           /\ selectedSensorIds = <<>>
           /\ ~EmptyStateShown

----------------------------------------------------------------------------
(* C17 *)

\* seq lists members of LOCATION_FILES, each once, in declaration order.
InDeclarationOrder(seq) ==
    seq = SelectSeq(LOCATION_FILES, LAMBDA id : id \in Ids(seq))

\* getLocations has processed a file in this step.
FileProcessed == locFetch.pc = "import" /\ locFetch' # locFetch

\* C17: a file that loads adds its id after the ids listed so far, a file
\* that fails adds and removes nothing, the loop goes on to the next file in
\* both cases, the page receives the list built after the last file, and
\* the list is always in declaration order.
C17_LocationsListing ==
    /\ [][FileProcessed
            => LET fileId == LOCATION_FILES[locFetch.i]
               IN /\ last'.op = "locationFile"
                  /\ last'.how = "import"
                       => last'.data = Append(locFetch.acc, fileId)
                  /\ last'.how = "failed" => last'.data = locFetch.acc
                  /\ IF locFetch.i < Len(LOCATION_FILES)
                     THEN /\ locFetch'.pc = "import"
                          /\ locFetch'.i = locFetch.i + 1
                          /\ locFetch'.acc = last'.data
                          /\ locations' = locations
                     ELSE /\ locFetch'.pc = "done"
                          /\ locations' = last'.data]_vars
    /\ [](InDeclarationOrder(locations) /\ InDeclarationOrder(locFetch.acc))

\* The first file failed, the second loaded, and the page lists the second
\* location alone.
C17_Witness ==
    /\ locFetch.pc = "done"
    /\ locations = <<"L2">>
    /\ "L1" \notin DOMAIN sensorCache
    /\ "L2" \in DOMAIN sensorCache

----------------------------------------------------------------------------
(* C18 *)

\* C18: the sensor ids of a confirm payload are sensorIds of the catalogue
\* of the payload's location.
C18_PayloadConsistent ==
    last.op = "confirm" => Ids(last.data) \subseteq Ids(Catalogue(last.loc))

----------------------------------------------------------------------------
(* C19 *)

\* C19: whenever a location is selected and isLoadingSensors is false,
\* sensors is a list getSensorsByLocation returns for that location.
C19_DisplayedCatalogueIsSelected ==
    (selectedLocationId # NULL /\ ~isLoadingSensors)
        => sensors \in Returnable(selectedLocationId)

----------------------------------------------------------------------------
(* C20 *)

\* C20: while the load of the selected location is in flight and has not
\* been cleaned up, isLoadingSensors is true, and the completion of a
\* superseded load leaves isLoadingSensors as it is.
C20_LoadingFlagHeld ==
    /\ [](LiveFetchInFlight => isLoadingSensors)
    /\ [][StaleCompletion => isLoadingSensors' = isLoadingSensors]_vars

\* A superseded load has just resolved while the load of the selected
\* location is still in flight, and isLoadingSensors is true.
C20_Witness ==
    /\ last.op = "fetchSensors"
    /\ ~last.flag
    /\ last.loc # selectedLocationId
    /\ LiveFetchInFlight
    /\ isLoadingSensors

----------------------------------------------------------------------------
(* C21 *)

\* The load of location id has been applied and nothing of it is pending.
Settled(id) ==
    /\ effectDep = id
    /\ ~LiveFetchInFlight
    /\ ~isLoadingSensors
    /\ sensors \in Returnable(id)

\* The completion of the load that has not been cleaned up puts the list
\* getSensorsByLocation returned in sensors and clears isLoadingSensors.
LiveLoadDelivers ==
    LiveCompletion =>
        /\ last'.op = "fetchSensors"
        /\ last'.loc = selectedLocationId
        /\ sensors' = last'.data
        /\ ~isLoadingSensors'

\* While a location is selected nothing else changes sensors.
SensorsHeld ==
    (selectedLocationId # NULL /\ sensors' # sensors) => LiveCompletion

\* A load that has not been cleaned up is in flight.
UncleanedLoadInFlight ==
    \E s \in Slots : fetches[s].pc # "free" /\ fetches[s].isMounted

\* C21: if every started load resolves and from some point on no other
\* location is picked, then from some point on isLoadingSensors is false and
\* sensors is the list the load of the selected location returned, whatever
\* picks came before and in whatever order their loads resolved.  sensors
\* takes its value only from the completion of the load that was not cleaned
\* up, and isLoadingSensors is true only while such a load is in flight.
C21_LoadSettles ==
    /\ [][LiveLoadDelivers /\ SensorsHeld]_vars
    /\ [](isLoadingSensors => UncleanedLoadInFlight)
    /\ <>[][selectedLocationId' = selectedLocationId]_vars
        => <>[](selectedLocationId = NULL \/ Settled(selectedLocationId))

\* The load of the selected location has just delivered its list while the
\* load of an earlier pick of another location is still in flight.
C21_Witness ==
    /\ last.op = "fetchSensors"
    /\ last.flag
    /\ last.loc = selectedLocationId
    /\ sensors = last.data
    /\ ~isLoadingSensors
    /\ \E s \in Slots :
        /\ fetches[s].pc # "free"
        /\ ~fetches[s].isMounted
        /\ fetches[s].loc # selectedLocationId

====
